---- MODULE Spec2Model ----
(***************************************************************************)
(* Docker Port Viewer: the App component of src/src/App.tsx as a state     *)
(* machine.  The component's useState cells are the variables, every event *)
(* handler (together with the filter/sort effect React runs after the      *)
(* state change that invalidates its dependencies) is one action.          *)
(*                                                                         *)
(* Strings the code inspects character by character (container names, the  *)
(* search term, the Created timestamp) are sequences of one-character      *)
(* strings; strings the code only stores, compares and concatenates (the   *)
(* hostname, URLs, the sort option) are TLA+ strings.                      *)
(***************************************************************************)
EXTENDS Integers, Sequences, FiniteSets, TLC

\* ------------------------------------------------------------------ bounds

\* longest navigation history explored
MaxHistory == 3
\* largest value of the iframe reload counter explored
MaxKey == 5
\* longest container list drawn as an input of the filter/sort effect
MaxLen == 3

\* ------------------------------------------------------------- data model

\* JavaScript null (useState<string | null>(null))
Null == "null"

\* an absent PublicPort (the field is missing from the API's JSON)
Undefined == -1

SortOptions == {"name-asc", "name-desc", "created-asc", "created-desc"}

\* the characters of the modelled strings
Whitespace == {" "}

Digits == <<"0", "1", "2", "3", "4", "5", "6", "7", "8", "9">>

\* container records as the Docker API returns them (fields the code reads)
cWeb == [Id |-> "c1", Names |-> << <<"/", "A", "b">> >>, Created |-> <<"1", "0">>,
         Ports |-> << [PublicPort |-> 8080, PrivatePort |-> 80] >>]

cDb == [Id |-> "c2", Names |-> << <<"/", "b">>, <<"/", "a", "B">> >>, Created |-> <<"9">>,
        Ports |-> << [PublicPort |-> Undefined, PrivatePort |-> 5432] >>]

cApi == [Id |-> "c3", Names |-> << <<"/", "A", "b">> >>, Created |-> <<"9">>,
         Ports |-> << [PublicPort |-> 8443, PrivatePort |-> 443] >>]

cAux == [Id |-> "c4", Names |-> << <<"/", "a">> >>, Created |-> <<"1", "0">>,
         Ports |-> << >>]

AllContainers == {cWeb, cDb, cApi, cAux}

\* search terms a user may type
SearchTerms == { << >>, <<" ">>, <<"/", "b">> }

\* search terms drawn as inputs of the filter/sort effect
ApplyTerms == { << >>, <<" ">>, <<"a">>, <<"A", "B">>, <<"/", "b">>, <<" ", "a">> }

\* ------------------------------------------------- string library functions

\* String.prototype.toLowerCase, one character
lowerChar(ch) ==
    CASE ch = "A" -> "a"
      [] ch = "B" -> "b"
      [] OTHER -> ch

\* String.prototype.toLowerCase
toLowerCase(s) == [i \in 1..Len(s) |-> lowerChar(s[i])]

\* String.prototype.includes
includes(s, t) == \E i \in 0..(Len(s) - Len(t)) : SubSeq(s, i + 1, i + Len(t)) = t

RECURSIVE trimStart(_)
trimStart(s) ==
    IF s # << >> /\ Head(s) \in Whitespace THEN trimStart(Tail(s)) ELSE s

RECURSIVE trimEnd(_)
trimEnd(s) ==
    IF s # << >> /\ s[Len(s)] \in Whitespace THEN trimEnd(SubSeq(s, 1, Len(s) - 1)) ELSE s

\* String.prototype.trim
trim(s) == trimEnd(trimStart(s))

\* value of a decimal digit character
digitValue(ch) == (CHOOSE i \in 1..Len(Digits) : Digits[i] = ch) - 1

RECURSIVE Number(_)
\* Number(str) for a string of decimal digits
Number(s) ==
    IF s = << >> THEN 0
    ELSE 10 * Number(SubSeq(s, 1, Len(s) - 1)) + digitValue(s[Len(s)])

\* Collation weights of String.prototype.localeCompare (root collation):
\* the primary weight orders white space < punctuation < digits < letters and
\* ignores case; the tertiary weight puts a lower-case letter first.
primaryWeight(ch) ==
    CASE ch = " " -> 0
      [] ch = "/" -> 1
      [] ch \in {"a", "A"} -> 20
      [] ch \in {"b", "B"} -> 21
      [] OTHER -> 10 + digitValue(ch)

tertiaryWeight(ch) == IF ch \in {"A", "B"} THEN 1 ELSE 0

RECURSIVE lexCompare(_, _)
\* lexicographic three-way comparison of two sequences of weights
lexCompare(x, y) ==
    IF x = << >> /\ y = << >> THEN 0
    ELSE IF x = << >> THEN -1
    ELSE IF y = << >> THEN 1
    ELSE IF Head(x) < Head(y) THEN -1
    ELSE IF Head(x) > Head(y) THEN 1
    ELSE lexCompare(Tail(x), Tail(y))

\* String.prototype.localeCompare
localeCompare(x, y) ==
    LET p == lexCompare([i \in 1..Len(x) |-> primaryWeight(x[i])],
                        [i \in 1..Len(y) |-> primaryWeight(y[i])])
    IN  IF p # 0 THEN p
        ELSE lexCompare([i \in 1..Len(x) |-> tertiaryWeight(x[i])],
                        [i \in 1..Len(y) |-> tertiaryWeight(y[i])])

\* ------------------------------------------------------ filter/sort engine

\* a match that compares the characters as they are, case included
matchesCaseSensitive(container, term) ==
    \E n \in 1..Len(container.Names) : includes(container.Names[n], term)

\* a container matches when some name contains the term, ignoring case
matches(container, term) ==
    \E n \in 1..Len(container.Names) :
        includes(toLowerCase(container.Names[n]), toLowerCase(term))

\* Array.prototype.filter with the search predicate
filter(arr, term) == SelectSeq(arr, LAMBDA c : matches(c, term))

\* a comparator that compares the Created strings as strings
compareCreatedAsStrings(a, b, opt) ==
    CASE opt = "name-asc" -> localeCompare(a.Names[1], b.Names[1])
      [] opt = "name-desc" -> localeCompare(b.Names[1], a.Names[1])
      [] opt = "created-asc" -> localeCompare(b.Created, a.Created)
      [] opt = "created-desc" -> localeCompare(a.Created, b.Created)
      [] OTHER -> 0

\* the comparator handed to Array.prototype.sort
compare(a, b, opt) ==
    CASE opt = "name-asc" -> localeCompare(a.Names[1], b.Names[1])
      [] opt = "name-desc" -> localeCompare(b.Names[1], a.Names[1])
      [] opt = "created-asc" -> Number(b.Created) - Number(a.Created)
      [] opt = "created-desc" -> Number(a.Created) - Number(b.Created)
      [] OTHER -> 0

RECURSIVE insertBeforeEqual(_, _, _)
\* an insertion that also passes the elements that compare equal
insertBeforeEqual(run, x, opt) ==
    IF run = << >> THEN <<x>>
    ELSE IF compare(run[Len(run)], x, opt) >= 0
         THEN Append(insertBeforeEqual(SubSeq(run, 1, Len(run) - 1), x, opt),
                     run[Len(run)])
         ELSE Append(run, x)

RECURSIVE insert(_, _, _)
\* x put into the sorted run, behind every element that does not compare greater
insert(run, x, opt) ==
    IF run = << >> THEN <<x>>
    ELSE IF compare(run[Len(run)], x, opt) > 0
         THEN Append(insert(SubSeq(run, 1, Len(run) - 1), x, opt), run[Len(run)])
         ELSE Append(run, x)

RECURSIVE sort(_, _)
\* Array.prototype.sort (stable) with the comparator of the sort option
sort(arr, opt) ==
    IF arr = << >> THEN << >>
    ELSE insert(sort(SubSeq(arr, 1, Len(arr) - 1), opt), arr[Len(arr)], opt)

\* whether the effect filters at all
isFiltering(term) == trim(term) # << >>

\* the array the effect calls `filtered`, before it is sorted
filteredOf(all, term) == IF isFiltering(term) THEN filter(all, term) ELSE all

\* the array handed to setFilteredContainers
visibleOf(all, term, opt) == sort(filteredOf(all, term), opt)

\* the `containers` array once the effect has run: without a search term
\* `filtered` is the very array `containers`, and sort() sorts it in place
storedOf(all, term, opt) == IF isFiltering(term) THEN all ELSE sort(all, opt)

\* ------------------------------------------------------------------- state

VARIABLES
    containers,          \* useState<DockerContainer[]>: the fetched list
    filteredContainers,  \* useState<DockerContainer[]>: the visible list
    hostname,            \* useState<string>
    searchTerm,          \* useState<string>
    sortOption,          \* useState<SortOption>
    loading,             \* useState<boolean>
    error,               \* useState<string | null>
    currentUrl,          \* useState<string | null>: the URL in the iframe
    iframeKey,           \* useState<number>: the reload counter
    iframeHistory,       \* useState<string[]>
    historyIndex,        \* useState<number>: 0-based, -1 when empty
    anchorEl,            \* useState<null | HTMLElement>: the open menu's anchor
    selectedUrl,         \* useState<string | null>: the URL the menu is about
    sameArray,           \* whether filteredContainers is the very array `containers`
    displayed,           \* the list rows in the DOM, as the last committed render drew them
    uncaught,            \* the exception that escaped a render or a handler, if any
    localStorage,        \* the browser's storage: its two entries and whether it works
    phase,               \* where the component's only fetch stands
    fetched,             \* history: response.data as the fetch returned it
    opened,              \* history: the URL last given to window.open
    effectIn,            \* history: the inputs of the last filter/sort effect run
    last                 \* history: the last handler run and the navigation state before it

vars == <<containers, filteredContainers, hostname, searchTerm, sortOption, loading,
          error, currentUrl, iframeKey, iframeHistory, historyIndex, anchorEl,
          selectedUrl, sameArray, displayed, uncaught, localStorage, phase, fetched,
          opened, effectIn, last>>

listVars == <<containers, filteredContainers, sameArray>>

\* the history variables the specifications record on top of the handlers
histVars == <<effectIn, last>>

navVars == <<currentUrl, iframeKey, iframeHistory, historyIndex>>

menuVars == <<anchorEl, selectedUrl>>

fetchVars == <<loading, error, phase, fetched>>

\* the navigation state as one value
nav == [history |-> iframeHistory, index |-> historyIndex,
        current |-> currentUrl, key |-> iframeKey]

\* hostnames a user may type
HostnameInputs == {"h"}

\* what the browser's storage may hold when the component is constructed
InitialStorage ==
    { [mode |-> "ok", hostname |-> h, sortOption |-> o] :
        h \in {Null}, o \in {Null, "created-desc"} }

\* lists the Docker API may answer with
Responses == { <<cDb, cWeb>>, <<cApi, cWeb>>, << >> }

FetchErrorMessage == "Failed to fetch container information. Make sure the Docker socket is accessible."

\* localStorage.getItem(key) || fallback
getItemOr(value, fallback) == IF value = Null \/ value = "" THEN fallback ELSE value

\* http://${hostname}:${port}
generateLink(host, port) == "http://" \o host \o ":" \o ToString(port)

\* the URLs of the links rendered for a visible list: one per published port
linksOf(list, host) ==
    UNION { { generateLink(host, list[i].Ports[j].PublicPort) :
                j \in { k \in 1..Len(list[i].Ports) :
                          /\ list[i].Ports[k].PublicPort # Undefined
                          /\ list[i].Ports[k].PublicPort # 0 } } :
            i \in 1..Len(list) }

\* two ports that differ at most in what the list never shows apart:
\* keyed on the published port alone
samePublicPort(p, q) == p.PublicPort = q.PublicPort

\* p.PublicPort === port.PublicPort && p.PrivatePort === port.PrivatePort
samePort(p, q) == p.PublicPort = q.PublicPort /\ p.PrivatePort = q.PrivatePort

\* self.findIndex(p => samePort(p, port)), counted from 1
findIndex(self, port) ==
    CHOOSE i \in 1..Len(self) :
        /\ samePort(self[i], port)
        /\ \A j \in 1..(i - 1) : ~samePort(self[j], port)

\* container.Ports.filter((port, index, self) => index === self.findIndex(...))
uniquePorts(self) ==
    LET kept[i \in 0..Len(self)] ==
            IF i = 0 THEN << >>
            ELSE IF i = findIndex(self, self[i])
                 THEN Append(kept[i - 1], self[i])
                 ELSE kept[i - 1]
    IN  kept[Len(self)]

\* filteredContainers.map(...): one row per container, its ports de-duplicated
rows(list) ==
    [i \in 1..Len(list) |-> [list[i] EXCEPT !.Ports = uniquePorts(list[i].Ports)]]

\* the exception a storage call throws when the storage does not work
StorageError == "SecurityError"

\* The state cells the useState initializers give for a storage. A getItem
\* that throws ends the first render: the component never comes to be.
construct(storage) ==
    IF storage.mode = "unavailable"
    THEN [hostname |-> Null, sortOption |-> Null, phase |-> "crashed",
          uncaught |-> StorageError]
    ELSE [hostname |-> getItemOr(storage.hostname, "localhost"),
          sortOption |-> getItemOr(storage.sortOption, "name-asc"),
          phase |-> "constructed",
          uncaught |-> Null]

\* the component as constructed over the storage in localStorage
constructed ==
    /\ containers = << >>
    /\ filteredContainers = << >>
    /\ sameArray = FALSE
    /\ displayed = << >>
    /\ hostname = construct(localStorage).hostname
    /\ searchTerm = << >>
    /\ sortOption = construct(localStorage).sortOption
    /\ loading = TRUE
    /\ error = Null
    /\ currentUrl = Null
    /\ iframeKey = 0
    /\ iframeHistory = << >>
    /\ historyIndex = -1
    /\ anchorEl = Null
    /\ selectedUrl = Null
    /\ phase = construct(localStorage).phase
    /\ uncaught = construct(localStorage).uncaught
    /\ fetched = << >>
    /\ opened = Null
    /\ effectIn = [ran |-> FALSE, all |-> << >>, term |-> << >>, opt |-> Null]
    /\ last = [op |-> "none", url |-> Null, nav |-> nav, prevOp |-> "none",
               prevIndex |-> -1, prevCurrent |-> Null]

Init ==
    /\ localStorage \in InitialStorage
    /\ constructed

\* ------------------------------------------------------- navigation history

\* handleLinkClick that keeps the forward entries and appends behind them
handleLinkClickKeepsForward(n, url) ==
    [history |-> Append(n.history, url),
     index |-> n.index + 1,
     current |-> url,
     key |-> n.key + 1]

\* handleLinkClick that points the index at the old end of the history
handleLinkClickIndexAtOldEnd(n, url) ==
    [history |-> Append(SubSeq(n.history, 1, n.index + 1), url),
     index |-> Len(n.history),
     current |-> url,
     key |-> n.key + 1]

\* handleLinkClick on a navigation state
handleLinkClick(n, url) ==
    [history |-> Append(SubSeq(n.history, 1, n.index + 1), url),
     index |-> n.index + 1,
     current |-> url,
     key |-> n.key + 1]

\* handleBack that bumps the reload counter outside its guard
handleBackAlwaysReloads(n) ==
    IF n.index > 0
    THEN [n EXCEPT !.index = n.index - 1,
                   !.current = n.history[(n.index - 1) + 1],
                   !.key = n.key + 1]
    ELSE [n EXCEPT !.key = n.key + 1]

\* handleBack that leaves the active URL as it was
handleBackStaleUrl(n) ==
    IF n.index > 0
    THEN [n EXCEPT !.index = n.index - 1,
                   !.key = n.key + 1]
    ELSE n

\* handleBack on a navigation state
handleBack(n) ==
    IF n.index > 0
    THEN [n EXCEPT !.index = n.index - 1,
                   !.current = n.history[(n.index - 1) + 1],
                   !.key = n.key + 1]
    ELSE n

\* handleForward that reads the URL at the old index
handleForwardOldIndexUrl(n) ==
    IF n.index < Len(n.history) - 1
    THEN [n EXCEPT !.index = n.index + 1,
                   !.current = n.history[n.index + 1],
                   !.key = n.key + 1]
    ELSE n

\* handleForward on a navigation state
handleForward(n) ==
    IF n.index < Len(n.history) - 1
    THEN [n EXCEPT !.index = n.index + 1,
                   !.current = n.history[(n.index + 1) + 1],
                   !.key = n.key + 1]
    ELSE n

\* handleRefresh done as a new visit of the active URL
handleRefreshAsVisit(n) ==
    IF n.current # Null
    THEN [history |-> Append(SubSeq(n.history, 1, n.index + 1), n.current),
          index |-> n.index + 1,
          current |-> n.current,
          key |-> n.key + 1]
    ELSE n

\* handleRefresh on a navigation state
handleRefresh(n) == [n EXCEPT !.key = n.key + 1]

\* the disabled prop of the back button
backDisabled(n) == n.index <= 0

\* the disabled prop of the forward button
forwardDisabled(n) == n.index >= Len(n.history) - 1

\* the setState calls of a navigation handler, committed
setNav(n) ==
    /\ iframeHistory' = n.history
    /\ historyIndex' = n.index
    /\ currentUrl' = n.current
    /\ iframeKey' = n.key

\* the filter/sort effect (useEffect on searchTerm, containers, sortOption)
runEffect(all, term, opt) ==
    /\ filteredContainers' = visibleOf(all, term, opt)
    /\ containers' = storedOf(all, term, opt)
    /\ sameArray' = ~isFiltering(term)

\* the render of the current state: the rows are drawn from filteredContainers
render == displayed' = rows(filteredContainers)

\* What is on screen once a render and the effect after it are done. The
\* render draws `before`; the effect then calls setFilteredContainers, and
\* React renders again only if the array it is given is not the one in the
\* state already (`same`: the state held the array `containers`), which a
\* blank search term hands back sorted in place.
displayedAfterEffect(before, same, all, term, opt) ==
    IF isFiltering(term) \/ ~same
    THEN rows(visibleOf(all, term, opt))
    ELSE rows(before)

\* the user can reach the page's controls: mounted, and no modal menu open
interactive == phase \in {"pending", "resolved", "rejected"} /\ anchorEl = Null

\* ----------------------------------------------------------------- actions

\* the two mount effects: fetchContainers() up to its await, and the first
\* run of the filter/sort effect
Mount ==
    /\ phase = "constructed"
    /\ phase' = "pending"
    /\ loading' = TRUE
    /\ error' = Null
    /\ runEffect(containers, searchTerm, sortOption)
    /\ displayed' = displayedAfterEffect(filteredContainers, sameArray, containers,
                                         searchTerm, sortOption)
    /\ UNCHANGED <<hostname, searchTerm, sortOption, navVars, menuVars,
                   localStorage, fetched, opened, uncaught>>

\* fetchContainers after the await, the request having failed, with the
\* error notice left unset
FetchRejectSilent ==
    /\ phase = "pending"
    /\ phase' = "rejected"
    /\ loading' = FALSE
    /\ render
    /\ UNCHANGED <<listVars, error, hostname, searchTerm, sortOption, navVars,
                   menuVars, localStorage, fetched, opened, uncaught>>

\* fetchContainers after the await, the request having succeeded, and the
\* filter/sort effect the new `containers` triggers. The three setState calls
\* come after an await: a root that batches them (createRoot) commits them in
\* one render that draws response.data and then runs the effect; a root that
\* does not (ReactDOM.render) runs the effect between them, and its
\* setFilteredContainers is applied last. Which root the build mounts is not
\* in the component, so `batched` is either.
FetchResolve(data, batched) ==
    /\ phase = "pending"
    /\ phase' = "resolved"
    /\ fetched' = data
    /\ loading' = FALSE
    /\ runEffect(data, searchTerm, sortOption)
    /\ displayed' = IF batched
                    THEN displayedAfterEffect(data, TRUE, data, searchTerm, sortOption)
                    ELSE rows(visibleOf(data, searchTerm, sortOption))
    /\ UNCHANGED <<hostname, searchTerm, sortOption, error, navVars, menuVars,
                   localStorage, opened, uncaught>>

\* fetchContainers after the await, the request having failed, with
\* setLoading(false) in the try block only
FetchRejectStillLoading ==
    /\ phase = "pending"
    /\ phase' = "rejected"
    /\ error' = FetchErrorMessage
    /\ render
    /\ UNCHANGED <<listVars, loading, hostname, searchTerm, sortOption, navVars,
                   menuVars, localStorage, fetched, opened, uncaught>>

\* fetchContainers after the await, the request having failed
FetchReject ==
    /\ phase = "pending"
    /\ phase' = "rejected"
    /\ error' = FetchErrorMessage
    /\ loading' = FALSE
    /\ render
    /\ UNCHANGED <<listVars, hostname, searchTerm, sortOption, navVars, menuVars,
                   localStorage, fetched, opened, uncaught>>

\* the search field's onChange, and the effect the new term triggers
SearchChange(term) ==
    /\ interactive
    /\ searchTerm' = term
    /\ IF term # searchTerm
       THEN /\ runEffect(containers, term, sortOption)
            /\ displayed' = displayedAfterEffect(filteredContainers, sameArray,
                                                 containers, term, sortOption)
       ELSE UNCHANGED <<listVars, displayed>>
    /\ UNCHANGED <<hostname, sortOption, navVars, menuVars, fetchVars,
                   localStorage, opened, uncaught>>

\* localStorage.setItem(key, value): the entry is written, or the call throws
setItem(key, value) ==
    IF localStorage.mode = "ok"
    THEN /\ localStorage' = [localStorage EXCEPT ![key] = value]
         /\ UNCHANGED uncaught
    ELSE /\ uncaught' = StorageError
         /\ UNCHANGED localStorage

\* handleSortChange, and the effect the new option triggers
SortChange(opt) ==
    /\ interactive
    /\ sortOption' = opt
    /\ setItem("sortOption", opt)
    /\ IF opt # sortOption
       THEN /\ runEffect(containers, searchTerm, opt)
            /\ displayed' = displayedAfterEffect(filteredContainers, sameArray,
                                                 containers, searchTerm, opt)
       ELSE UNCHANGED <<listVars, displayed>>
    /\ UNCHANGED <<hostname, searchTerm, navVars, menuVars, fetchVars, opened>>

\* handleHostnameChange
HostnameChange(h) ==
    /\ interactive
    /\ hostname' = h
    /\ setItem("hostname", h)
    /\ IF h # hostname THEN render ELSE UNCHANGED displayed
    /\ UNCHANGED <<listVars, searchTerm, sortOption, navVars, menuVars, fetchVars,
                   opened>>

\* a click on a port link: handleLinkClick
LinkClick(url) ==
    /\ interactive
    /\ ~loading
    /\ url \in linksOf(filteredContainers, hostname)
    /\ historyIndex + 2 <= MaxHistory
    /\ iframeKey < MaxKey
    /\ setNav(handleLinkClick(nav, url))
    /\ render
    /\ UNCHANGED <<listVars, hostname, searchTerm, sortOption, menuVars, fetchVars,
                   localStorage, opened, uncaught>>

\* a click on the back button's handler
Back ==
    /\ interactive
    /\ iframeKey < MaxKey
    /\ setNav(handleBack(nav))
    /\ IF handleBack(nav) # nav THEN render ELSE UNCHANGED displayed
    /\ UNCHANGED <<listVars, hostname, searchTerm, sortOption, menuVars, fetchVars,
                   localStorage, opened, uncaught>>

\* a click on the forward button's handler
Forward ==
    /\ interactive
    /\ iframeKey < MaxKey
    /\ setNav(handleForward(nav))
    /\ IF handleForward(nav) # nav THEN render ELSE UNCHANGED displayed
    /\ UNCHANGED <<listVars, hostname, searchTerm, sortOption, menuVars, fetchVars,
                   localStorage, opened, uncaught>>

\* a click on the refresh button
Refresh ==
    /\ interactive
    /\ iframeKey < MaxKey
    /\ setNav(handleRefresh(nav))
    /\ render
    /\ UNCHANGED <<listVars, hostname, searchTerm, sortOption, menuVars, fetchVars,
                   localStorage, opened, uncaught>>

\* handleMenuClick: the per-link menu opens
MenuClick(url) ==
    /\ interactive
    /\ ~loading
    /\ url \in linksOf(filteredContainers, hostname)
    /\ anchorEl' = "button"
    /\ selectedUrl' = url
    /\ render
    /\ UNCHANGED <<listVars, hostname, searchTerm, sortOption, navVars, fetchVars,
                   localStorage, opened, uncaught>>

\* handleMenuClose
MenuClose ==
    /\ anchorEl # Null
    /\ anchorEl' = Null
    /\ selectedUrl' = Null
    /\ render
    /\ UNCHANGED <<listVars, hostname, searchTerm, sortOption, navVars, fetchVars,
                   localStorage, opened, uncaught>>

\* handleOpenInIframe, handleMenuClose included
OpenInIframe ==
    /\ anchorEl # Null
    /\ historyIndex + 2 <= MaxHistory
    /\ iframeKey < MaxKey
    /\ IF selectedUrl # Null /\ selectedUrl # ""
       THEN setNav(handleLinkClick(nav, selectedUrl))
       ELSE UNCHANGED navVars
    /\ anchorEl' = Null
    /\ selectedUrl' = Null
    /\ render
    /\ UNCHANGED <<listVars, hostname, searchTerm, sortOption, fetchVars,
                   localStorage, opened, uncaught>>

\* handleOpenInNewTab that also loads the URL in the embedded viewer
OpenInNewTabAlsoVisits ==
    /\ anchorEl # Null
    /\ historyIndex + 2 <= MaxHistory
    /\ iframeKey < MaxKey
    /\ opened' = IF selectedUrl # Null /\ selectedUrl # "" THEN selectedUrl ELSE opened
    /\ IF selectedUrl # Null /\ selectedUrl # ""
       THEN setNav(handleLinkClick(nav, selectedUrl))
       ELSE UNCHANGED navVars
    /\ anchorEl' = Null
    /\ selectedUrl' = Null
    /\ render
    /\ UNCHANGED <<listVars, hostname, searchTerm, sortOption, fetchVars,
                   localStorage, uncaught>>

\* handleOpenInNewTab, handleMenuClose included
OpenInNewTab ==
    /\ anchorEl # Null
    /\ opened' = IF selectedUrl # Null /\ selectedUrl # "" THEN selectedUrl ELSE opened
    /\ anchorEl' = Null
    /\ selectedUrl' = Null
    /\ render
    /\ UNCHANGED <<listVars, hostname, searchTerm, sortOption, navVars, fetchVars,
                   localStorage, uncaught>>

\* `last` records the handler `op` that runs in this step
logged(op, url) ==
    /\ last' = [op |-> op, url |-> url, nav |-> nav, prevOp |-> last.op,
                prevIndex |-> last.nav.index, prevCurrent |-> last.nav.current]
    /\ UNCHANGED effectIn

\* lists the Docker API may answer with, for the navigation specification
NavResponses == { <<cWeb, cApi>> }

\* The whole component: every handler, the fetch and the effect.
Next ==
    \/ Mount /\ UNCHANGED histVars
    \/ \E data \in Responses : \E batched \in BOOLEAN :
           FetchResolve(data, batched) /\ UNCHANGED histVars
    \/ FetchReject /\ UNCHANGED histVars
    \/ \E term \in SearchTerms : SearchChange(term) /\ UNCHANGED histVars
    \/ \E opt \in SortOptions : SortChange(opt) /\ UNCHANGED histVars
    \/ \E h \in HostnameInputs : HostnameChange(h) /\ UNCHANGED histVars
    \/ \E url \in linksOf(filteredContainers, hostname) :
           LinkClick(url) /\ UNCHANGED histVars
    \/ Back /\ UNCHANGED histVars
    \/ Forward /\ UNCHANGED histVars
    \/ Refresh /\ UNCHANGED histVars
    \/ \E url \in linksOf(filteredContainers, hostname) :
           MenuClick(url) /\ UNCHANGED histVars
    \/ MenuClose /\ UNCHANGED histVars
    \/ OpenInIframe /\ UNCHANGED histVars
    \/ OpenInNewTab /\ UNCHANGED histVars

Spec == Init /\ [][Next]_vars

\* The embedded viewer's navigation, each handler run recorded in `last`.
NextNav ==
    \/ Mount /\ logged("mount", Null)
    \/ \E data \in NavResponses : \E batched \in BOOLEAN :
           FetchResolve(data, batched) /\ logged("resolve", Null)
    \/ \E h \in HostnameInputs : HostnameChange(h) /\ logged("hostname", Null)
    \/ \E url \in linksOf(filteredContainers, hostname) :
           LinkClick(url) /\ logged("visit", url)
    \/ Back /\ logged("back", Null)
    \/ Forward /\ logged("forward", Null)
    \/ Refresh /\ logged("refresh", Null)
    \/ \E url \in linksOf(filteredContainers, hostname) :
           MenuClick(url) /\ logged("menu", url)
    \/ MenuClose /\ logged("close", Null)
    \/ OpenInIframe /\ logged("iframe", selectedUrl)
    \/ OpenInNewTab /\ logged("newtab", selectedUrl)

SpecNav == Init /\ [][NextNav]_vars

\* ------------------------------------- the filter/sort effect on its inputs

\* container lists without repeated containers, up to MaxLen long
Lists ==
    UNION { { l \in [1..n -> AllContainers] :
                \A i, j \in 1..n : i # j => l[i] # l[j] } : n \in 0..MaxLen }

\* The component right after a fetch has resolved and its state is committed
\* (containers and filteredContainers both response.data), the effect the
\* new list triggers not yet run; list, search term and sort option are any.
InitApply ==
    /\ containers \in Lists
    /\ filteredContainers = containers
    /\ fetched = containers
    /\ searchTerm \in ApplyTerms
    /\ sortOption \in SortOptions
    /\ localStorage = [mode |-> "ok", hostname |-> Null, sortOption |-> sortOption]
    /\ sameArray = TRUE
    /\ displayed = rows(containers)
    /\ uncaught = Null
    /\ hostname = "localhost"
    /\ loading = FALSE
    /\ error = Null
    /\ currentUrl = Null
    /\ iframeKey = 0
    /\ iframeHistory = << >>
    /\ historyIndex = -1
    /\ anchorEl = Null
    /\ selectedUrl = Null
    /\ phase = "resolved"
    /\ opened = Null
    /\ effectIn = [ran |-> FALSE, all |-> << >>, term |-> << >>, opt |-> Null]
    /\ last = [op |-> "none", url |-> Null, nav |-> nav, prevOp |-> "none",
               prevIndex |-> -1, prevCurrent |-> Null]

\* `effectIn` records the inputs the effect runs on in this step
loggedEffect(all, term, opt) ==
    /\ effectIn' = [ran |-> TRUE, all |-> all, term |-> term, opt |-> opt]
    /\ UNCHANGED last

\* the effect run that follows the commit of the fetched list
EffectAfterFetch ==
    /\ ~effectIn.ran
    /\ runEffect(containers, searchTerm, sortOption)
    /\ loggedEffect(containers, searchTerm, sortOption)
    /\ displayed' = displayedAfterEffect(filteredContainers, sameArray, containers,
                                         searchTerm, sortOption)
    /\ UNCHANGED <<hostname, searchTerm, sortOption, navVars, menuVars, fetchVars,
                   localStorage, opened, uncaught>>

NextApply ==
    \/ EffectAfterFetch
    \/ \E term \in ApplyTerms :
           /\ effectIn.ran
           /\ term # searchTerm
           /\ SearchChange(term)
           /\ loggedEffect(containers, term, sortOption)
    \/ \E opt \in SortOptions :
           /\ effectIn.ran
           /\ opt # sortOption
           /\ SortChange(opt)
           /\ loggedEffect(containers, searchTerm, opt)

SpecApply == InitApply /\ [][NextApply]_vars

\* --------------------------------------------- the persisted preferences

\* hostnames a user may type in the preferences specification: the field
\* cleared, and a name
PrefsHostnames == {"", "h"}

\* What the browser's storage may hold, and whether it works, when the page
\* is opened: "ok" reads and writes, "readonly" reads but throws on setItem
\* (quota), "unavailable" throws on every access. The sort option entry may
\* be a string no version of the page ever wrote.
PrefsStorage ==
    { [mode |-> m, hostname |-> h, sortOption |-> o] :
        m \in {"ok", "readonly", "unavailable"},
        h \in {Null, "h"},
        o \in {Null, "created-desc", "bogus"} }

InitPrefs ==
    /\ localStorage \in PrefsStorage
    /\ constructed

\* the page is loaded again: a new component over the same storage
Reload ==
    /\ UNCHANGED localStorage
    /\ containers' = << >>
    /\ filteredContainers' = << >>
    /\ sameArray' = FALSE
    /\ displayed' = << >>
    /\ hostname' = construct(localStorage).hostname
    /\ searchTerm' = << >>
    /\ sortOption' = construct(localStorage).sortOption
    /\ loading' = TRUE
    /\ error' = Null
    /\ setNav([history |-> << >>, index |-> -1, current |-> Null, key |-> 0])
    /\ anchorEl' = Null
    /\ selectedUrl' = Null
    /\ phase' = construct(localStorage).phase
    /\ uncaught' = construct(localStorage).uncaught
    /\ fetched' = << >>
    /\ opened' = Null

\* The preferences, their handlers recorded in `last` with the value given.
NextPrefs ==
    \/ Mount /\ logged("mount", Null)
    \/ \E data \in NavResponses, batched \in BOOLEAN :
           FetchResolve(data, batched) /\ logged("resolve", Null)
    \/ FetchReject /\ logged("reject", Null)
    \/ \E h \in PrefsHostnames : HostnameChange(h) /\ logged("hostname", h)
    \/ \E opt \in SortOptions : SortChange(opt) /\ logged("sort", opt)
    \/ Reload /\ logged("reload", Null)

SpecPrefs == InitPrefs /\ [][NextPrefs]_vars

\* ----------------------------------------------------- the rendered ports

\* the longest port list of a container
MaxPorts == 3

\* Port entries as the Docker API lists them: one per address a port is
\* bound on, so a pair may come twice, and without PublicPort when the port
\* is not published.
PortEntries ==
    { [IP |-> ip, PrivatePort |-> pair[2], PublicPort |-> pair[1]] :
        ip \in {"0.0.0.0", "::"},
        pair \in { <<80, 8080>>, <<80, 9090>>, <<443, 8443>>, <<Undefined, 8080>> } }

PortLists == UNION { [1..n -> PortEntries] : n \in 0..MaxPorts }

\* answers of the Docker API: one container, its port list any
PortResponses == { << [cWeb EXCEPT !.Ports = ports] >> : ports \in PortLists }

\* The list is fetched and drawn, the search may change.
NextPorts ==
    \/ Mount /\ UNCHANGED histVars
    \/ \E data \in PortResponses, batched \in BOOLEAN :
           FetchResolve(data, batched) /\ UNCHANGED histVars
    \/ \E term \in SearchTerms : SearchChange(term) /\ UNCHANGED histVars

SpecPorts == Init /\ [][NextPorts]_vars

\* ------------------------------------------- the fetch and the list edits

\* the fetch settles: it resolves with some list, or it fails
FetchSettles ==
    \/ \E data \in Responses, batched \in BOOLEAN : FetchResolve(data, batched)
    \/ FetchReject

\* The list side of the component: the mount, the fetch, and the search and
\* sort edits in any order around them.
NextFetch ==
    \/ Mount /\ UNCHANGED histVars
    \/ \E data \in Responses, batched \in BOOLEAN :
           FetchResolve(data, batched) /\ UNCHANGED histVars
    \/ FetchReject /\ UNCHANGED histVars
    \/ \E term \in ApplyTerms : SearchChange(term) /\ UNCHANGED histVars
    \/ \E opt \in SortOptions : SortChange(opt) /\ UNCHANGED histVars

\* React runs the mount effects once the first render is committed, and the
\* request is assumed to settle: both steps are taken once they can be.
SpecFetch ==
    /\ Init
    /\ [][NextFetch]_vars
    /\ WF_vars(Mount /\ UNCHANGED histVars)
    /\ WF_vars(FetchSettles /\ UNCHANGED histVars)

\* ------------------------------------------------ navigation history claims

\* the three URLs of the published ports under the default hostname and "h"
urlA == "http://localhost:8080"

urlB == "http://localhost:8443"

urlC == "http://h:8080"

\* C1: a visit (handleLinkClick) leaves the old history up to and including
\* the old current index, followed by the visited URL: the entries behind the
\* old index are discarded; the index is that of the new last entry, the
\* active URL is the visited one and the reload counter is one higher.  A
\* forward() straight after a visit therefore changes nothing.
C1_VisitTruncatesAndAppends ==
    /\ last.op = "visit" =>
         /\ iframeHistory = SubSeq(last.nav.history, 1, last.nav.index + 1) \o <<last.url>>
         /\ historyIndex = Len(iframeHistory) - 1
         /\ currentUrl = last.url
         /\ iframeKey = last.nav.key + 1
    /\ (last.op = "forward" /\ last.prevOp = "visit") => nav = last.nav

\* visit(a), visit(b), back(), visit(c) has just ended: [a, c], index 1
C1_Witness ==
    /\ last.op = "visit"
    /\ last.prevOp = "back"
    /\ last.nav.history = <<urlA, urlB>>
    /\ last.nav.index = 0
    /\ last.url = urlC
    /\ iframeHistory = <<urlA, urlC>>
    /\ historyIndex = 1

\* C2: the index is -1 exactly when the history is empty, and otherwise a
\* valid 0-based index into it, whatever handlers have run.
C2_IndexValid ==
    /\ historyIndex = -1 <=> iframeHistory = << >>
    /\ iframeHistory # << >> => 0 <= historyIndex /\ historyIndex <= Len(iframeHistory) - 1

\* a state behind visits, a back, a new-tab opening and hostname, search and
\* sort edits
C2_Witness ==
    /\ Len(iframeHistory) = MaxHistory
    /\ historyIndex = 0
    /\ hostname = "h"
    /\ searchTerm # << >>
    /\ sortOption = "name-desc"
    /\ opened # Null

\* C3: back() where the back button is disabled (index <= 0, the empty state
\* included) and forward() where the forward button is disabled (index at the
\* last entry or beyond) change nothing of history, index, active URL and
\* reload counter; where the button is enabled the handler does change them.
C3_DisabledIsNoOp ==
    /\ (last.op = "back" /\ last.nav.index <= 0) => nav = last.nav
    /\ (/\ last.op = "forward"
        /\ last.nav.index >= Len(last.nav.history) - 1) => nav = last.nav
    /\ last.op = "back" => (backDisabled(last.nav) <=> nav = last.nav)
    /\ last.op = "forward" => (forwardDisabled(last.nav) <=> nav = last.nav)

\* forward() at the only entry, straight after back() at index 0
C3_Witness ==
    /\ last.op = "forward"
    /\ last.nav.index = 0
    /\ Len(last.nav.history) = 1
    /\ last.prevOp = "back"
    /\ last.prevIndex = 0
    /\ nav = last.nav

\* C4: an effective back() lowers the index by one and an effective forward()
\* raises it by one; the history is unchanged, the active URL is the entry at
\* the new index and the reload counter is one higher.  An effective back()
\* followed by forward(), and an effective forward() followed by back(),
\* restore index and active URL.
C4_BackForwardStep ==
    /\ (last.op = "back" /\ last.nav.index > 0) =>
         /\ iframeHistory = last.nav.history
         /\ historyIndex = last.nav.index - 1
         /\ currentUrl = iframeHistory[historyIndex + 1]
         /\ iframeKey = last.nav.key + 1
    /\ (last.op = "forward" /\ last.nav.index < Len(last.nav.history) - 1) =>
         /\ iframeHistory = last.nav.history
         /\ historyIndex = last.nav.index + 1
         /\ currentUrl = iframeHistory[historyIndex + 1]
         /\ iframeKey = last.nav.key + 1
    /\ (last.op = "forward" /\ last.prevOp = "back" /\ last.prevIndex > 0) =>
         /\ historyIndex = last.prevIndex
         /\ currentUrl = last.prevCurrent
    /\ (/\ last.op = "back"
        /\ last.prevOp = "forward"
        /\ last.nav.index = last.prevIndex + 1) =>
         /\ historyIndex = last.prevIndex
         /\ currentUrl = last.prevCurrent

\* back() from the last of three entries, then forward(), is back at it
C4_Witness ==
    /\ last.op = "forward"
    /\ last.prevOp = "back"
    /\ last.prevIndex = 2
    /\ last.nav.index = 1
    /\ historyIndex = 2
    /\ currentUrl = last.prevCurrent
    /\ currentUrl # iframeHistory[2]

\* C5: refresh() raises the reload counter by one and leaves history, index
\* and active URL alone, in the empty state as in any other.
C5_RefreshOnlyReloads ==
    last.op = "refresh" =>
        /\ iframeKey = last.nav.key + 1
        /\ iframeHistory = last.nav.history
        /\ historyIndex = last.nav.index
        /\ currentUrl = last.nav.current

\* refresh() in the empty state, the fetched links on display
C5_Witness ==
    /\ last.op = "refresh"
    /\ last.nav.index = -1
    /\ last.nav.current = Null
    /\ phase = "resolved"
    /\ iframeKey = last.nav.key + 1

\* C6: the active URL is null exactly while the index is -1, it is the
\* history entry at the index otherwise (and a URL the iframe is rendered
\* for), and once it is not null no handler makes it null again.
C6_ActiveUrlStable ==
    /\ [](/\ currentUrl = Null <=> historyIndex = -1
          /\ historyIndex # -1 =>
               /\ historyIndex + 1 \in DOMAIN iframeHistory
               /\ currentUrl = iframeHistory[historyIndex + 1]
               /\ currentUrl # "")
    /\ [][currentUrl # Null => currentUrl' # Null]_vars

\* the viewer is back at the first of two entries, whose link the list no
\* longer shows since the hostname was edited
C6_Witness ==
    /\ Len(iframeHistory) = 2
    /\ historyIndex = 0
    /\ currentUrl = iframeHistory[1]
    /\ currentUrl # iframeHistory[2]
    /\ ~loading
    /\ currentUrl \notin linksOf(filteredContainers, hostname)

\* ------------------------------------------------- filter/sort engine claims

\* the elements of a sequence
Range(seq) == { seq[i] : i \in 1..Len(seq) }

\* a string of white space only (the empty string included)
isBlank(term) == \A k \in 1..Len(term) : term[k] \in Whitespace

\* two characters that are the same letter, whatever their case
sameLetter(x, y) ==
    \/ x = y
    \/ {x, y} = {"a", "A"}
    \/ {x, y} = {"b", "B"}

\* some name of the container holds the term as a substring, ignoring case
nameContains(container, term) ==
    \E n \in 1..Len(container.Names) :
        \E off \in 0..(Len(container.Names[n]) - Len(term)) :
            \A k \in 1..Len(term) : sameLetter(container.Names[n][off + k], term[k])

\* the place of a container in a list that holds it once
indexIn(list, c) == CHOOSE k \in 1..Len(list) : list[k] = c

\* C7: the filter/sort effect does not touch the stored list: after the
\* fetch has resolved, `containers` is the sequence the fetch returned,
\* whatever search and sort edits have been made.
C7_StoredListIsFetched ==
    phase = "resolved" => containers = fetched

\* C8: the visible list holds exactly the containers of the input list that
\* have a name containing the search term, ignoring case, each once; for an
\* empty or white-space-only term it holds every container of the list.
C8_FilterExact ==
    effectIn.ran =>
        /\ \A c \in AllContainers :
               c \in Range(filteredContainers) <=>
                   /\ c \in Range(effectIn.all)
                   /\ isBlank(effectIn.term) \/ nameContains(c, effectIn.term)
        /\ Len(filteredContainers) = Cardinality(Range(filteredContainers))

\* the term "AB" keeps /Ab and the container whose second name is /aB, and
\* drops /a
C8_Witness ==
    /\ effectIn.ran
    /\ effectIn.term = <<"A", "B">>
    /\ effectIn.all = <<cDb, cAux, cWeb>>
    /\ Range(filteredContainers) = {cDb, cWeb}

\* C9: under name-asc the visible list is non-decreasing, under name-desc
\* non-increasing, in the collation order of the first names; under every
\* sort option it is a permutation of the filtered subset of the input list
\* in which containers of equal sort key keep their order in the input list.
C9_SortedStable ==
    effectIn.ran =>
        LET out == filteredContainers
            all == effectIn.all
            opt == effectIn.opt
            equalKey(a, b) ==
                IF opt \in {"name-asc", "name-desc"}
                THEN a.Names[1] = b.Names[1]
                ELSE Number(a.Created) = Number(b.Created)
        IN  /\ opt = "name-asc" =>
                  \A i, j \in 1..Len(out) :
                      i < j => localeCompare(out[i].Names[1], out[j].Names[1]) <= 0
            /\ opt = "name-desc" =>
                  \A i, j \in 1..Len(out) :
                      i < j => localeCompare(out[i].Names[1], out[j].Names[1]) >= 0
            /\ Range(out) = { c \in Range(all) :
                                isBlank(effectIn.term) \/ nameContains(c, effectIn.term) }
            /\ Len(out) = Cardinality(Range(out))
            /\ \A i, j \in 1..Len(out) :
                  (i < j /\ equalKey(out[i], out[j])) =>
                      indexIn(all, out[i]) < indexIn(all, out[j])

\* /b moves behind the two containers named /Ab, which keep their order
C9_Witness ==
    /\ effectIn.ran
    /\ effectIn.opt = "name-asc"
    /\ effectIn.all = <<cDb, cApi, cWeb>>
    /\ filteredContainers = <<cApi, cWeb, cDb>>

C11_SortOptionInEnum ==
    phase # "crashed" =>
        /\ sortOption \in SortOptions
        /\ phase = "constructed" =>
               sortOption = IF localStorage.sortOption \in SortOptions
                            THEN localStorage.sortOption
                            ELSE "name-asc"

\* C12: with a working storage, a hostname edit to any string v, the empty
\* string included, leaves v both in memory and persisted, and the next
\* startup over the same storage yields the persisted hostname; the hostname
\* is 'localhost' only when nothing was ever stored.
C12_HostnameRoundTrip ==
    localStorage.mode = "ok" =>
        /\ last.op = "hostname" =>
               hostname = last.url /\ localStorage.hostname = hostname
        /\ phase = "constructed" =>
               hostname = IF localStorage.hostname = Null
                          THEN "localhost"
                          ELSE localStorage.hostname

\* C13: when every access to the storage fails, startup still completes with
\* hostname 'localhost' and sort option name-asc and the view never fails;
\* and when a write fails, a hostname or sort edit still updates the
\* in-memory value and no exception reaches the caller.
C13_StorageFailureTolerated ==
    /\ localStorage.mode = "unavailable" =>
           /\ phase # "crashed"
           /\ uncaught = Null
           /\ phase = "constructed" => hostname = "localhost" /\ sortOption = "name-asc"
    /\ (localStorage.mode # "ok" /\ last.op = "hostname") =>
           hostname = last.url /\ uncaught = Null
    /\ (localStorage.mode # "ok" /\ last.op = "sort") =>
           sortOption = last.url /\ uncaught = Null

\* ------------------------------------------------------------ fetch claims

portKey(p) == <<p.PublicPort, p.PrivatePort>>

\* the position at which a pair first occurs in a port list
firstAt(all, p) ==
    CHOOSE k \in 1..Len(all) :
        /\ portKey(all[k]) = portKey(p)
        /\ \A j \in 1..(k - 1) : portKey(all[j]) # portKey(p)

\* `shown` has exactly one entry per pair of `all`, the one at the pair's
\* first position, in the order of those positions
firstOccurrences(shown, all) ==
    /\ \A k \in 1..Len(all) :
           Cardinality({m \in 1..Len(shown) : portKey(shown[m]) = portKey(all[k])}) = 1
    /\ \A m \in 1..Len(shown) :
           /\ \E k \in 1..Len(all) : portKey(all[k]) = portKey(shown[m])
           /\ shown[m] = all[firstAt(all, shown[m])]
    /\ \A m, n \in 1..Len(shown) :
           m < n => firstAt(all, shown[m]) < firstAt(all, shown[n])

\* C15: the ports drawn for a container are exactly one entry per distinct
\* (PublicPort, PrivatePort) pair of its port list, an absent PublicPort
\* being a value of its own, each at the position of its first occurrence
\* and in the list's order.
C15_PortsDeduplicated ==
    \A i \in 1..Len(displayed) :
        \E j \in 1..Len(fetched) :
            /\ fetched[j].Id = displayed[i].Id
            /\ firstOccurrences(displayed[i].Ports, fetched[j].Ports)

\* the list [(80,8080), (80,8080), (443,8443)] is drawn as two entries
C15_Witness ==
    /\ Len(displayed) = 1
    /\ Len(fetched) = 1
    /\ [k \in 1..Len(fetched[1].Ports) |-> portKey(fetched[1].Ports[k])]
           = << <<80, 8080>>, <<80, 8080>>, <<443, 8443>> >>
    /\ fetched[1].Ports[1] # fetched[1].Ports[2]
    /\ displayed[1].Ports = << fetched[1].Ports[1], fetched[1].Ports[3] >>

\* ------------------------------------------------------------ menu claims

\* C16: opening the selected URL in a new tab hands it to window.open and
\* leaves the history, the index, the active URL and the reload counter as
\* they were; opening it in the embedded viewer has exactly the effect of a
\* visit of the selected URL.
C16_NewTabLeavesHistory ==
    /\ last.op = "newtab" =>
           /\ iframeHistory = last.nav.history
           /\ historyIndex = last.nav.index
           /\ currentUrl = last.nav.current
           /\ iframeKey = last.nav.key
           /\ opened = last.url
    /\ last.op = "iframe" =>
           /\ iframeHistory =
                  Append(SubSeq(last.nav.history, 1, last.nav.index + 1), last.url)
           /\ historyIndex = last.nav.index + 1
           /\ currentUrl = last.url
           /\ iframeKey = last.nav.key + 1
    /\ last.op \in {"newtab", "iframe"} => anchorEl = Null /\ selectedUrl = Null

\* a URL was opened in a new tab while the viewer showed another one, after
\* going back in a history of two
C16_Witness ==
    /\ last.op = "newtab"
    /\ opened = urlB
    /\ currentUrl = urlA
    /\ Len(iframeHistory) = 2
    /\ historyIndex = 0

\* --------------------------------------------- fetch and list edit claims

\* C17: however search edits, sort edits and the completion of the fetch
\* interleave, once the fetch has succeeded and the recomputations have run
\* the list on screen is the fetched list filtered by the current search
\* and sorted by the current sort option, not the raw response.
C17_ShownListIsApplied ==
    phase = "resolved" =>
        displayed = rows(visibleOf(fetched, searchTerm, sortOption))

\* C18: the loading indicator is on from construction until the fetch
\* settles; the fetch being taken to settle, it is eventually off, off in
\* both outcomes, and never on again; the fetch is issued once, at mount,
\* and never again; and once it has settled the error notice is set exactly
\* when it failed.
C18_LoadingUntilFetchSettles ==
    /\ [](phase \in {"constructed", "pending"} => loading)
    /\ [](phase \in {"resolved", "rejected"} => ~loading)
    /\ <>[](~loading)
    /\ [][~loading => ~loading']_vars
    /\ [][phase' # phase =>
             \/ phase = "constructed" /\ phase' = "pending"
             \/ phase = "pending" /\ phase' \in {"resolved", "rejected"}]_vars
    /\ [](phase \in {"resolved", "rejected"} =>
             (error # Null <=> phase = "rejected"))

\* the fetch has failed, the indicator is off and the notice is set, and
\* the user has changed the sort option since
C18_Witness ==
    /\ phase = "rejected"
    /\ ~loading
    /\ error = FetchErrorMessage
    /\ sortOption = "name-desc"

====
